---------------------------- MODULE Spec2Model ----------------------------
(***************************************************************************)
(* Model of raptor's threshold-correction cache                            *)
(* (src/src/search/precompute_correction.cpp): correction_filename,        *)
(* write_correction, read_correction and precompute_correction, run by     *)
(* several processes against one index directory.                          *)
(*                                                                         *)
(* Abstractions, all stated here:                                          *)
(*  - size_t is modelled at SizeBits bits instead of 64.  All parameters   *)
(*    are far below 2^SizeBits, so the only wrap-arounds are those of      *)
(*    negative differences, exactly as with 64 bits.                       *)
(*  - a double in (0,1) is the rational x / DoubleScale.  The products of  *)
(*    the binom lambda are computed exactly; for the rates used in Spec    *)
(*    (dyadic fpr) the double computation is exact as well.                *)
(*  - a file is a sequence of 8-byte words; cereal's binary archive of a   *)
(*    std::vector<size_t> is the size tag followed by the elements.        *)
(*  - file-system calls themselves do not fail (the directory exists and   *)
(*    is writable).                                                        *)
(*  - detail::pascal_row is not part of the sources at hand; it is taken   *)
(*    to return C(n,0) .. C(n,n), for n whose coefficients fit a size_t.   *)
(*  - an assert is a no-op or an abort, as the build decides; an           *)
(*    out-of-bounds read returns some value or traps.                      *)
(***************************************************************************)
EXTENDS Integers, Sequences, FiniteSets, TLC

\* ----------------------------------------------------------------- bounds
NumProcs == 2
MaxPattern == 5
MaxWindow == 3
MaxKmer == 2
SizeBits == 8
DoubleDigits == 7
MaxTableLen == 2
MaxEntry == 2

Procs == 1..NumProcs

\* ------------------------------------------------------------ arithmetic
RECURSIVE Pow(_, _)
Pow(b, e) == IF e = 0 THEN 1 ELSE b * Pow(b, e - 1)

RECURSIVE Gcd(_, _)
Gcd(a, b) == IF b = 0 THEN a ELSE Gcd(b, a % b)

SizeMod == Pow(2, SizeBits)

\* unsigned arithmetic of size_t: results are reduced modulo 2^SizeBits
SizeT(x) == x % SizeMod

\* std::vector<size_t>::max_size(): PTRDIFF_MAX / sizeof(size_t)
VectorMaxSize == ((SizeMod \div 2) - 1) \div 8

DoubleScale == Pow(10, DoubleDigits)

\* the double a/b, for b a divisor of DoubleScale
Frac(a, b) == (a * DoubleScale) \div b

RatNum(x) == x \div Gcd(x, DoubleScale)
RatDen(x) == DoubleScale \div Gcd(x, DoubleScale)

\* ------------------------------------------------------------ parameters
\* seqan3::shape as its bit mask (to_ulong); size() is its bit length
RECURSIVE ShapeSize(_)
ShapeSize(s) == IF s = 0 THEN 0 ELSE 1 + ShapeSize(s \div 2)

Ungapped(k) == Pow(2, k) - 1

FprValues == {Frac(1, 2), Frac(1, 4)}
PMaxValues == {Frac(1, 4), Frac(3, 10)}

SearchArguments ==
    [pattern_size : 1..MaxPattern,
     window_size : 1..MaxWindow,
     shape : {Ungapped(k) : k \in 1..MaxKmer},
     p_max : PMaxValues,
     fpr : FprValues,
     treshold_was_set : BOOLEAN,
     cache_thresholds : BOOLEAN]

\* the caller passes validated arguments: a window is at least one k-mer
\* long, and so is the pattern
ValidArguments ==
    {a \in SearchArguments : /\ a.window_size >= ShapeSize(a.shape)
                             /\ a.pattern_size >= ShapeSize(a.shape)}

\* ------------------------------------------------------------- pascal row
\* detail::pascal_row(n): the n+1 coefficients C(n,0) .. C(n,n), each from its
\* predecessor
RECURSIVE PascalEntry(_, _)
PascalEntry(n, i) ==
    IF i = 0 THEN 1 ELSE (PascalEntry(n, i - 1) * (n + 1 - i)) \div i

pascal_row(n) == [i \in 1..(n + 1) |-> PascalEntry(n, i - 1)]

\* ------------------------------------------------------------ binom lambda
\* std::pow(inv_fpr, e) for an exponent that wrapped around: the result
\* underflows to 0.0 (inv_fpr < 1)
PowUnderflows(e) == e >= SizeMod \div 2

\* binom(binom_coeff, number_of_minimizers, number_of_fp) >= arguments.p_max,
\* with coeff the value read from binom_coeff[number_of_fp]
BinomGE(a, coeff, n, k) ==
    LET e == SizeT(n - k)
        fa == RatNum(a.fpr)
        fb == RatDen(a.fpr)
        pa == RatNum(a.p_max)
        pb == RatDen(a.p_max)
    IN  IF PowUnderflows(e)
        THEN FALSE
        ELSE coeff * Pow(fa, k) * Pow(fb - fa, e) * pb >= pa * Pow(fb, k + e)

\* ------------------------------------------------------- minimizer counts
KmersPerWindow(a) == SizeT(a.window_size - ShapeSize(a.shape) + 1)
KmersPerPattern(a) == SizeT(a.pattern_size - ShapeSize(a.shape) + 1)
MinimalNumberOfMinimizers(a) == KmersPerPattern(a) \div KmersPerWindow(a)
MaximalNumberOfMinimizers(a) == SizeT(a.pattern_size - a.window_size + 1)

\* correction.reserve(maximal - minimal) throws std::length_error beyond max_size
ReserveThrows(a) ==
    SizeT(MaximalNumberOfMinimizers(a) - MinimalNumberOfMinimizers(a)) > VectorMaxSize

\* ------------------------------------------------------------- cache file
NoFile == [exists |-> FALSE, data |-> <<>>]
FileOf(words) == [exists |-> TRUE, data |-> words]

\* std::ofstream os{filename, std::ios::binary}: creates or truncates
OpenForWrite(f) == FileOf(<<>>)

EncodeWithoutSizeTag(vec) == vec

\* oarchive(vec): the size tag, then the elements
Encode(vec) == <<Len(vec)>> \o vec

\* iarchive(vec): reads the size tag, resizes vec, reads that many elements;
\* a short read throws cereal::Exception, an oversized tag std::length_error
Decode(words) ==
    IF Len(words) = 0
    THEN [ok |-> FALSE, vec |-> <<>>]
    ELSE IF words[1] > VectorMaxSize \/ Len(words) - 1 < words[1]
         THEN [ok |-> FALSE, vec |-> <<>>]
         ELSE [ok |-> TRUE, vec |-> SubSeq(words, 2, words[1] + 1)]

\* what an earlier run, or damage to the disk, can have left at the cache path
InitialFiles == {NoFile, FileOf(<<>>), FileOf(<<2, 0>>), FileOf(<<1, 2>>)}

\* values an out-of-bounds read of binom_coeff can return
GarbageCoefficients == {0, 1, SizeMod - 1}

\* ------------------------------------------------------------------ state
VARIABLES
    arguments,              \* the search_arguments every process is run with
    file,                   \* the cache file index_file.parent_path() / correction_filename
    pc,                     \* pc[p]: where process p is in precompute_correction
    correction,             \* correction[p]: the local std::vector<size_t> correction
    cache_hit,              \* cache_hit[p]: read_correction returned true
    number_of_minimizers,   \* number_of_minimizers[p]: the outer loop variable
    number_of_fp,           \* number_of_fp[p]: the inner loop variable
    rt,                     \* harness of the write/read round trip
    keys,                   \* harness of correction_filename: two argument tuples
    cp                      \* parse_chopper_config: parser, build_arguments, layout file

vars == <<arguments, file, pc, correction, cache_hit,
          number_of_minimizers, number_of_fp, rt, keys, cp>>

locals == <<correction, cache_hit, number_of_minimizers, number_of_fp>>
harness == <<rt, keys, cp>>

RtOff == [stage |-> "off", table |-> <<>>, vec |-> <<>>, ret |-> FALSE]
KeysOff == [stage |-> "off", other |-> <<>>, first |-> <<>>, second |-> <<>>]
CpOff == [stage |-> "off"]

\* ------------------------------------------------- precompute_correction
Init ==
    /\ arguments \in ValidArguments
    /\ file \in InitialFiles
    /\ pc = [p \in Procs |-> "idle"]
    /\ correction = [p \in Procs |-> <<>>]
    /\ cache_hit = [p \in Procs |-> FALSE]
    /\ number_of_minimizers = [p \in Procs |-> 0]
    /\ number_of_fp = [p \in Procs |-> 0]
    /\ rt = RtOff
    /\ keys = KeysOff
    /\ cp = CpOff

AfterThresholdTestIgnoringFlag(a) == "read_exists"

\* line 74, left operand: with a fixed threshold the empty vector is returned
\* and read_correction is not called
AfterThresholdTest(a) == IF a.treshold_was_set THEN "done" ELSE "read_exists"

Call(p) ==
    /\ pc[p] = "idle"
    /\ pc' = [pc EXCEPT ![p] = AfterThresholdTest(arguments)]
    /\ UNCHANGED <<arguments, file, locals, harness>>

\* read_correction, lines 60-62
AfterExistsTest(f) == IF f.exists THEN "read_decode" ELSE "setup"

ReadExists(p) ==
    /\ pc[p] = "read_exists"
    /\ pc' = [pc EXCEPT ![p] = AfterExistsTest(file)]
    /\ UNCHANGED <<arguments, file, locals, harness>>

AfterDecodeStoringAgain(ok) == IF ok THEN "write" ELSE "read_threw"

\* read_correction, lines 64-67, and the return of line 75; an exception of
\* the archive leaves precompute_correction
AfterDecode(ok) == IF ok THEN "done" ELSE "read_threw"

ReadDecode(p) ==
    /\ pc[p] = "read_decode"
    /\ LET r == Decode(file.data)
       IN  /\ pc' = [pc EXCEPT ![p] = AfterDecode(r.ok)]
           /\ correction' = [correction EXCEPT ![p] = r.vec]
           /\ cache_hit' = [cache_hit EXCEPT ![p] = r.ok]
    /\ UNCHANGED <<arguments, file, number_of_minimizers, number_of_fp, harness>>

\* assert(condition): without effect in a build that defines NDEBUG, abort()
\* on a false condition in any other build
AssertOutcomes(condition, next) == IF condition THEN {next} ELSE {next, "aborted"}

\* assert(correction.size() != 0), line 113, then the call of write_correction
AfterLoop(vec) == AssertOutcomes(Len(vec) # 0, "write")

LoopContinuesExclusive(a, n) == n < MaximalNumberOfMinimizers(a)

\* the loop test of line 103
LoopContinues(a, n) == n <= MaximalNumberOfMinimizers(a)

\* lines 77-87 and the loop head of lines 102-107
Setup(p) ==
    /\ pc[p] = "setup"
    /\ \E asserted \in AssertOutcomes(arguments.window_size # ShapeSize(arguments.shape),
                                     "reserve") :
          IF asserted = "aborted"
          THEN /\ pc' = [pc EXCEPT ![p] = "aborted"]
               /\ UNCHANGED <<number_of_minimizers, number_of_fp>>
          ELSE IF ReserveThrows(arguments)
          THEN /\ pc' = [pc EXCEPT ![p] = "reserve_threw"]
               /\ UNCHANGED <<number_of_minimizers, number_of_fp>>
          ELSE LET n == MinimalNumberOfMinimizers(arguments)
               IN  /\ number_of_minimizers' = [number_of_minimizers EXCEPT ![p] = n]
                   /\ number_of_fp' = [number_of_fp EXCEPT ![p] = 1]
                   /\ \E after \in (IF LoopContinues(arguments, n)
                                   THEN {"scan"} ELSE AfterLoop(correction[p])) :
                         pc' = [pc EXCEPT ![p] = after]
    /\ UNCHANGED <<arguments, file, correction, cache_hit, harness>>

PushedEntryWithoutDecrement(k) == SizeT(k)

\* line 111: the entry pushed when the scan stops at number_of_fp = k
PushedEntry(k) == SizeT(k - 1)

\* lines 108-109, one evaluation of the loop condition with outcome ge, and,
\* when the scan stops, lines 111 and 104
ScanStep(p, ge) ==
    LET n == number_of_minimizers[p]
        k == number_of_fp[p]
        next == SizeT(n + 1)
        vec == Append(correction[p], PushedEntry(k))
    IN  IF ge
        THEN /\ number_of_fp' = [number_of_fp EXCEPT ![p] = SizeT(k + 1)]
             /\ UNCHANGED <<pc, correction, number_of_minimizers>>
        ELSE /\ correction' = [correction EXCEPT ![p] = vec]
             /\ number_of_minimizers' = [number_of_minimizers EXCEPT ![p] = next]
             /\ number_of_fp' = [number_of_fp EXCEPT ![p] = 1]
             /\ \E after \in (IF LoopContinues(arguments, next)
                             THEN {"scan"} ELSE AfterLoop(vec)) :
                   pc' = [pc EXCEPT ![p] = after]

\* binom_coeff[number_of_fp] is inside the row
InRow(n, k) == k + 1 <= Len(pascal_row(n))

Scan(p) ==
    /\ pc[p] = "scan"
    /\ InRow(number_of_minimizers[p], number_of_fp[p])
    /\ ScanStep(p, BinomGE(arguments,
                           pascal_row(number_of_minimizers[p])[number_of_fp[p] + 1],
                           number_of_minimizers[p], number_of_fp[p]))
    /\ UNCHANGED <<arguments, file, cache_hit, harness>>

\* binom_coeff[number_of_fp] past the end of the row is undefined behaviour:
\* the read returns whatever lies behind the vector ...
ScanOutOfRow(p) ==
    /\ pc[p] = "scan"
    /\ ~InRow(number_of_minimizers[p], number_of_fp[p])
    /\ \E g \in GarbageCoefficients :
          ScanStep(p, BinomGE(arguments, g,
                              number_of_minimizers[p], number_of_fp[p]))
    /\ UNCHANGED <<arguments, file, cache_hit, harness>>

\* ... or a checked build (_GLIBCXX_ASSERTIONS, a sanitizer) traps on it
ScanTrap(p) ==
    /\ pc[p] = "scan"
    /\ ~InRow(number_of_minimizers[p], number_of_fp[p])
    /\ pc' = [pc EXCEPT ![p] = "aborted"]
    /\ UNCHANGED <<arguments, file, locals, harness>>

\* write_correction, lines 49-53
AfterCacheTest(a) == IF a.cache_thresholds THEN "write_archive" ELSE "done"

WriteOpen(p) ==
    /\ pc[p] = "write"
    /\ pc' = [pc EXCEPT ![p] = AfterCacheTest(arguments)]
    /\ file' = IF arguments.cache_thresholds THEN OpenForWrite(file) ELSE file
    /\ UNCHANGED <<arguments, locals, harness>>

\* write_correction, lines 54-56: the archive is flushed when os is destroyed
WriteArchive(p) ==
    /\ pc[p] = "write_archive"
    /\ file' = FileOf(Encode(correction[p]))
    /\ pc' = [pc EXCEPT ![p] = "done"]
    /\ UNCHANGED <<arguments, locals, harness>>

Next ==
    \E p \in Procs :
        \/ Call(p)
        \/ ReadExists(p)
        \/ ReadDecode(p)
        \/ Setup(p)
        \/ Scan(p)
        \/ ScanOutOfRow(p)
        \/ ScanTrap(p)
        \/ WriteOpen(p)
        \/ WriteArchive(p)

Spec == Init /\ [][Next]_vars

\* --------------------------------------------------- correction_filename
\* a std::string is the sequence of its characters
HexDigits == <<"0", "1", "2", "3", "4", "5", "6", "7", "8", "9",
               "a", "b", "c", "d", "e", "f">>
DecDigits == SubSeq(HexDigits, 1, 10)

\* operator<< of an unsigned integer under std::hex
RECURSIVE ToHex(_)
ToHex(n) ==
    IF n < 16 THEN <<HexDigits[n + 1]>>
    ELSE ToHex(n \div 16) \o <<HexDigits[(n % 16) + 1]>>

RECURSIVE ToDec(_)
ToDec(n) ==
    IF n < 10 THEN <<DecDigits[n + 1]>>
    ELSE ToDec(n \div 10) \o <<DecDigits[(n % 10) + 1]>>

\* the precision of a std::stringstream, which the code leaves at its default
StreamPrecision == 6

\* zeros between the decimal point and the first significant digit of x
RECURSIVE LeadingZeros(_)
LeadingZeros(x) == IF x * 10 >= DoubleScale THEN 0 ELSE 1 + LeadingZeros(x * 10)

\* the first StreamPrecision significant digits of x, rounded, as an integer
Significand(x) ==
    LET y == x * Pow(10, LeadingZeros(x))
        unit == Pow(10, DoubleDigits - StreamPrecision)
    IN  (y \div unit) + (IF 2 * (y % unit) >= unit THEN 1 ELSE 0)

RECURSIVE StripZeros(_)
StripZeros(m) == IF m % 10 = 0 THEN StripZeros(m \div 10) ELSE m

\* operator<< of a double in (0,1): %g with StreamPrecision digits; std::hex
\* does not apply to it
FormatDouble(x) ==
    LET carry == Significand(x) = Pow(10, StreamPrecision)
        z == IF carry THEN LeadingZeros(x) - 1 ELSE LeadingZeros(x)
        digits == ToDec(StripZeros(Significand(x)))
        exponent == ToDec(z + 1)
    IN  IF z < 0 THEN <<"1">>
        ELSE IF z <= 3
        THEN <<"0", ".">> \o [i \in 1..z |-> "0"] \o digits
        ELSE <<digits[1]>>
             \o (IF Len(digits) > 1 THEN <<".">> \o Tail(digits) ELSE <<>>)
             \o <<"e", "-">>
             \o (IF Len(exponent) < 2 THEN <<"0">> ELSE <<>>) \o exponent

\* result.find("0."): the first position of "0.", 0 for npos
RECURSIVE FindZeroDot(_, _)
FindZeroDot(str, i) ==
    IF i + 1 > Len(str) THEN 0
    ELSE IF str[i] = "0" /\ str[i + 1] = "." THEN i
    ELSE FindZeroDot(str, i + 1)

\* lines 40-41 (and again 42-43): result.replace(it, 2, "")
EraseZeroDot(str) ==
    LET it == FindZeroDot(str, 1)
    IN  IF it = 0 THEN str
        ELSE SubSeq(str, 1, it - 1) \o SubSeq(str, it + 2, Len(str))

correction_filename(a) ==
    LET stream == <<"c", "o", "r", "r", "e", "c", "t", "i", "o", "n", "_">>
                  \o ToHex(a.pattern_size) \o <<"_">>
                  \o ToHex(a.window_size) \o <<"_">>
                  \o ToHex(a.shape) \o <<"_">>
                  \o FormatDouble(a.p_max) \o <<"_">>
                  \o FormatDouble(a.fpr)
                  \o <<".", "b", "i", "n">>
    IN  EraseZeroDot(EraseZeroDot(stream))

\* argument tuples whose file names are compared
KeyDoubles == {Frac(1, 2), Frac(3, 20), Frac(3, 20) + 1, Frac(1, 20),
               Frac(1, 100000)}

KeyArguments ==
    [pattern_size : {MaxPattern, 16 + MaxPattern},
     window_size : {MaxWindow, 16 + MaxWindow},
     shape : {Ungapped(MaxKmer), Ungapped(MaxKmer + 1) - 2},
     p_max : KeyDoubles,
     fpr : KeyDoubles,
     treshold_was_set : {FALSE},
     cache_thresholds : {TRUE}]

KeysInit ==
    /\ arguments \in KeyArguments
    /\ keys \in [stage : {"args"}, other : KeyArguments, first : {<<>>}, second : {<<>>}]
    /\ file = NoFile
    /\ pc = [p \in Procs |-> "idle"]
    /\ correction = [p \in Procs |-> <<>>]
    /\ cache_hit = [p \in Procs |-> FALSE]
    /\ number_of_minimizers = [p \in Procs |-> 0]
    /\ number_of_fp = [p \in Procs |-> 0]
    /\ rt = RtOff
    /\ cp = CpOff

\* correction_filename applied to both tuples
NameKeys ==
    /\ keys.stage = "args"
    /\ keys' = [keys EXCEPT !.stage = "named",
                            !.first = correction_filename(arguments),
                            !.second = correction_filename(keys.other)]
    /\ UNCHANGED <<arguments, file, pc, locals, rt, cp>>

KeysNext == NameKeys

SpecFilename == KeysInit /\ [][KeysNext]_vars

\* ------------------------------------- write_correction, read_correction
\* tables handed to write_correction, and vectors handed to read_correction
RECURSIVE TablesOfLen(_)
TablesOfLen(n) ==
    IF n = 0 THEN {<<>>}
    ELSE {Append(t, e) : t \in TablesOfLen(n - 1), e \in 0..MaxEntry}

Tables == UNION {TablesOfLen(n) : n \in 0..MaxTableLen}

RtArguments == {a \in ValidArguments : a.pattern_size = MaxPattern /\ ~a.treshold_was_set}

RtInit ==
    /\ arguments \in RtArguments
    /\ file \in InitialFiles
    /\ rt \in [stage : {"write"}, table : Tables, vec : {<<>>, <<MaxEntry>>}, ret : {FALSE}]
    /\ pc = [p \in Procs |-> "idle"]
    /\ correction = [p \in Procs |-> <<>>]
    /\ cache_hit = [p \in Procs |-> FALSE]
    /\ number_of_minimizers = [p \in Procs |-> 0]
    /\ number_of_fp = [p \in Procs |-> 0]
    /\ keys = KeysOff
    /\ cp = CpOff

\* write_correction(rt.table, arguments), lines 49-53
RtWriteOpen ==
    /\ rt.stage = "write"
    /\ rt' = [rt EXCEPT !.stage = IF AfterCacheTest(arguments) = "done"
                                  THEN "read" ELSE "write_archive"]
    /\ file' = IF arguments.cache_thresholds THEN OpenForWrite(file) ELSE file
    /\ UNCHANGED <<arguments, pc, locals, keys, cp>>

\* lines 54-56
RtWriteArchive ==
    /\ rt.stage = "write_archive"
    /\ file' = FileOf(Encode(rt.table))
    /\ rt' = [rt EXCEPT !.stage = "read"]
    /\ UNCHANGED <<arguments, pc, locals, keys, cp>>

\* read_correction(rt.vec, arguments), lines 60-67
RtRead ==
    /\ rt.stage = "read"
    /\ IF AfterExistsTest(file) = "setup"
       THEN rt' = [rt EXCEPT !.stage = "returned", !.ret = FALSE]
       ELSE LET r == Decode(file.data)
            IN  IF AfterDecode(r.ok) = "done"
                THEN rt' = [rt EXCEPT !.stage = "returned", !.ret = TRUE, !.vec = r.vec]
                ELSE rt' = [rt EXCEPT !.stage = "read_threw"]
    /\ UNCHANGED <<arguments, file, pc, locals, keys, cp>>

RtNext == RtWriteOpen \/ RtWriteArchive \/ RtRead

SpecRoundTrip == RtInit /\ [][RtNext]_vars

\* -------------------------------------------------- parse_chopper_config
\* A layout file is the sequence of its lines.  A line that carries the JSON
\* of a configuration is "##json1" or "##json2"; the archive decodes the
\* lines between ##CONFIG: and ##ENDCONFIG, which hold one such document.
\* validate_shape (line 94) lies outside the sources at hand: it is taken to
\* leave kmer_size, hash and fpr alone, and --kmer with --shape, which it
\* may reject, is left out of the inputs.
JsonLines == {"##json1", "##json2"}

JsonConfig(line) ==
    IF line = "##json1"
    THEN [k |-> 20, num_hash_functions |-> 3, false_positive_rate |-> Frac(1, 100)]
    ELSE [k |-> 19, num_hash_functions |-> 2, false_positive_rate |-> Frac(1, 20)]

\* chopper::configuration config{}, line 60
DefaultConfiguration ==
    [k |-> 19, num_hash_functions |-> 2, false_positive_rate |-> Frac(1, 20)]

StartsWithHashes(line) == line \in JsonLines \cup {"##CONFIG:", "##ENDCONFIG"}

\* std::getline(file_in, line): the i-th line, the empty string past the end
LineAt(lines, i) == IF i <= Len(lines) THEN lines[i] ELSE ""

\* lines 39-48: the line on which the loop stops, and the lines collected
\* into config_stream before it
RECURSIVE ConfigLoop(_, _, _)
ConfigLoop(lines, i, stream) ==
    IF i > Len(lines) \/ ~StartsWithHashes(lines[i]) \/ lines[i] = "##ENDCONFIG"
    THEN [line |-> LineAt(lines, i), stream |-> stream]
    ELSE ConfigLoop(lines, i + 1, Append(stream, lines[i]))

\* read_chopper_config: "false", "true" with the decoded configuration, or
\* "threw" when the JSON archive fails on config_stream
read_chopper_config(config, lines) ==
    LET loop == ConfigLoop(lines, 2, <<>>)
    IN  IF LineAt(lines, 1) # "##CONFIG:"
        THEN [result |-> "false", config |-> config]
        ELSE IF loop.line # "##ENDCONFIG"
        THEN [result |-> "false", config |-> config]
        ELSE IF Len(loop.stream) = 1 /\ loop.stream[1] \in JsonLines
        THEN [result |-> "true", config |-> JsonConfig(loop.stream[1])]
        ELSE [result |-> "threw", config |-> config]

\* layout files that build_parsing passes on: leading ## lines, then the
\* header line of the layout
LayoutFiles ==
    {<<"#HIGH_LEVEL_IBF">>,
     <<"##CONFIG:", "##ENDCONFIG", "#HIGH_LEVEL_IBF">>}
    \cup UNION {{<<"##CONFIG:", j, "##ENDCONFIG", "#HIGH_LEVEL_IBF">>,
                 <<"##CONFIG:", j, "#HIGH_LEVEL_IBF">>,
                 <<j, "##ENDCONFIG", "#HIGH_LEVEL_IBF">>} : j \in JsonLines}

BuildArguments ==
    [input_is_minimiser : BOOLEAN,
     kmer_size : {19, 20},
     hash : {2, 3},
     fpr : {Frac(1, 20), Frac(1, 100)}]

ParserOptions ==
    {o \in [kmer : BOOLEAN, shape : BOOLEAN, hash : BOOLEAN, fpr : BOOLEAN] :
        ~(o.kmer /\ o.shape)}

CpInit ==
    /\ cp \in [stage : {"called"},
               is_option_set : ParserOptions,
               given : BuildArguments,
               arguments : BuildArguments,
               bin_file : LayoutFiles,
               config : {DefaultConfiguration},
               config_available : {FALSE}]
    /\ cp.arguments = cp.given
    /\ arguments \in {a \in ValidArguments : a.pattern_size = MaxPattern
                                             /\ a.window_size = MaxWindow
                                             /\ a.treshold_was_set
                                             /\ ~a.cache_thresholds}
    /\ file = NoFile
    /\ pc = [p \in Procs |-> "idle"]
    /\ correction = [p \in Procs |-> <<>>]
    /\ cache_hit = [p \in Procs |-> FALSE]
    /\ number_of_minimizers = [p \in Procs |-> 0]
    /\ number_of_fp = [p \in Procs |-> 0]
    /\ rt = RtOff
    /\ keys = KeysOff

\* line 69
ConfigRequired(c) ==
    \/ (~c.arguments.input_is_minimiser /\ ~c.is_option_set.kmer /\ ~c.is_option_set.shape)
    \/ ~c.is_option_set.hash
    \/ ~c.is_option_set.fpr

\* lines 60-71
CpReadConfig ==
    /\ cp.stage = "called"
    /\ LET r == read_chopper_config(cp.config, cp.bin_file)
       IN  cp' = [cp EXCEPT !.stage = IF r.result = "threw" THEN "archive_threw" ELSE "read",
                            !.config = r.config,
                            !.config_available = (r.result = "true")]
    /\ UNCHANGED <<arguments, file, pc, locals, rt, keys>>

\* lines 80-92: the k-mer size after the comparison with the layout file
KmerAfterConfig(c) ==
    IF c.config_available /\ c.is_option_set.kmer /\ c.config.k # c.arguments.kmer_size
    THEN c.arguments.kmer_size
    ELSE c.config.k

\* lines 96-106
HashAfterConfig(c) ==
    IF c.config_available /\ c.is_option_set.hash
           /\ c.config.num_hash_functions # c.arguments.hash
    THEN c.arguments.hash
    ELSE c.config.num_hash_functions

\* lines 108-118
FprAfterConfig(c) ==
    IF c.config_available /\ c.is_option_set.fpr
           /\ c.config.false_positive_rate # c.arguments.fpr
    THEN c.arguments.fpr
    ELSE c.config.false_positive_rate

\* lines 72-118
CpApplyConfig ==
    /\ cp.stage = "read"
    /\ IF ~cp.config_available /\ ConfigRequired(cp)
       THEN cp' = [cp EXCEPT !.stage = "validation_error"]
       ELSE cp' = [cp EXCEPT !.stage = "returned",
                             !.arguments.kmer_size = KmerAfterConfig(cp),
                             !.arguments.hash = HashAfterConfig(cp),
                             !.arguments.fpr = FprAfterConfig(cp)]
    /\ UNCHANGED <<arguments, file, pc, locals, rt, keys>>

CpNext == CpReadConfig \/ CpApplyConfig

SpecChopper == CpInit /\ [][CpNext]_vars

\* ------------------------------------------------------------ properties
\* the quantities of the claims, in unbounded integer arithmetic
RECURSIVE Choose(_, _)
Choose(n, k) ==
    IF k < 0 \/ k > n THEN 0
    ELSE IF k = 0 \/ k = n THEN 1
    ELSE Choose(n - 1, k - 1) + Choose(n - 1, k)

\* C(n,k) * fpr^k * (1-fpr)^(n-k) >= p_max
ProbabilityGE(a, n, k) ==
    /\ k <= n
    /\ Choose(n, k) * Pow(RatNum(a.fpr), k) * Pow(RatDen(a.fpr) - RatNum(a.fpr), n - k)
           * RatDen(a.p_max)
       >= RatNum(a.p_max) * Pow(RatDen(a.fpr), n)

Minimal(a) ==
    (a.pattern_size - ShapeSize(a.shape) + 1) \div (a.window_size - ShapeSize(a.shape) + 1)
Maximal(a) == a.pattern_size - a.window_size + 1

\* process p holds a table it is building or has built itself
Builds(p) == pc[p] \in {"scan", "write", "write_archive", "done"}
                 /\ ~cache_hit[p] /\ ~arguments.treshold_was_set
Built(p) == Builds(p) /\ pc[p] # "scan"

\* a configuration without configuration error whose pattern holds a window
AcceptedConfiguration(a) ==
    /\ a.window_size > ShapeSize(a.shape)
    /\ a.pattern_size >= a.window_size

\* C1: every entry c of a table under construction or built, stored for
\* minimizer count n, has P(n, c+1) < p_max, and P(n, c) >= p_max if c > 0
C1_EntriesBracketSignificanceBound ==
    \A p \in Procs :
        Builds(p) =>
            \A i \in 1..Len(correction[p]) :
                LET n == Minimal(arguments) + i - 1
                    c == correction[p][i]
                IN  /\ ~ProbabilityGE(arguments, n, c + 1)
                    /\ (c > 0 => ProbabilityGE(arguments, n, c))

C1_Witness ==
    \E p \in Procs :
        /\ Built(p) /\ pc[p] = "done"
        /\ Len(correction[p]) >= 2
        /\ \E i \in 1..Len(correction[p]) : correction[p][i] > 0
        /\ \E i \in 1..Len(correction[p]) : correction[p][i] = 0

\* C2: for a configuration the spec accepts, the binom lambda is only
\* evaluated with number_of_fp within the row,
\* 0 <= number_of_fp <= number_of_minimizers
C2_ModelEvaluatedInsideRow ==
    \A p \in Procs :
        (AcceptedConfiguration(arguments) /\ pc[p] = "scan") =>
            /\ 0 <= number_of_fp[p]
            /\ number_of_fp[p] <= number_of_minimizers[p]

\* C3: with treshold_was_set no process looks the cache up, builds or
\* writes: the file is never touched and every table stays empty
C3_OverrideReturnsEmptyTable ==
    [][arguments.treshold_was_set =>
          /\ file' = file
          /\ \A p \in Procs : /\ pc'[p] \in {"idle", "done"}
                              /\ correction'[p] = <<>>]_vars

C3_Witness ==
    /\ arguments.treshold_was_set
    /\ file.exists /\ Decode(file.data).ok
    /\ \A p \in Procs : pc[p] = "done" /\ correction[p] = <<>>

\* C5: a built table has Maximal - Minimal + 1 entries, and the entry for
\* minimizer count n is pushed at index n - Minimal
C5_TableCoversMinimizerRange ==
    \A p \in Procs :
        /\ (Builds(p) /\ pc[p] = "scan") =>
               Len(correction[p]) = number_of_minimizers[p] - Minimal(arguments)
        /\ Built(p) =>
               /\ Len(correction[p]) = Maximal(arguments) - Minimal(arguments) + 1
               /\ Len(correction[p]) >= 1

C5_Witness ==
    \E p \in Procs :
        /\ Built(p) /\ pc[p] = "done"
        /\ Len(correction[p]) = 3
        /\ Minimal(arguments) = 2 /\ Maximal(arguments) = 4

\* C6: with window_size = kmer_size, or an empty minimizer-count range, no
\* table is built, returned or written
ConfigurationError(a) ==
    \/ a.window_size = ShapeSize(a.shape)
    \/ Maximal(a) < Minimal(a)

C6_ConfigurationErrorReported ==
    \A p \in Procs : ConfigurationError(arguments) => ~Built(p)

\* C7: an artifact that does not decode is a cache miss: no process leaves
\* precompute_correction with the exception of the archive
C7_CorruptArtifactIsCacheMiss ==
    \A p \in Procs : AcceptedConfiguration(arguments) => pc[p] # "read_threw"

\* C8: a process that found the artifact of a concurrent builder reads that
\* builder's complete table
C8_ReaderSeesCompleteArtifact ==
    \A p, q \in Procs :
        (/\ AcceptedConfiguration(arguments)
         /\ pc[p] = "read_decode"
         /\ Built(q) /\ pc[q] \in {"write_archive", "done"}) =>
            Decode(file.data) = [ok |-> TRUE, vec |-> correction[q]]

\* C10: only a process that built the complete table itself writes; a cache
\* hit returns the decoded table as it is and the file stays as it was
TableComplete(p) == Len(correction[p]) = Maximal(arguments) - Minimal(arguments) + 1

WritesOnlyAfterBuild ==
    \A p \in Procs :
        pc[p] \in {"write", "write_archive"} => (Builds(p) /\ TableComplete(p))

C10_WriteOnlyAfterBuild ==
    [][/\ WritesOnlyAfterBuild'
       /\ \A p \in Procs :
             /\ (cache_hit'[p] /\ ~cache_hit[p]) =>
                    /\ correction'[p] = Decode(file.data).vec
                    /\ pc'[p] = "done"
                    /\ file' = file
             /\ cache_hit[p] => (correction'[p] = correction[p] /\ pc'[p] = "done")
       /\ file' # file =>
             \E p \in Procs : /\ pc[p] \in {"write", "write_archive"}
                              /\ pc'[p] # pc[p]
                              /\ ~cache_hit[p]]_vars

C10_Witness ==
    \E p, q \in Procs :
        /\ pc[p] = "done" /\ cache_hit[p]
        /\ pc[q] = "done" /\ Built(q)
        /\ correction[p] = correction[q]
        /\ file = FileOf(Encode(correction[q]))

\* C4, as claimed: after write_correction(T) the following read_correction
\* returns true and leaves vec equal to T
RtReadDone == rt.stage \in {"returned", "read_threw"}
RtRoundTrips == rt.stage = "returned" /\ rt.ret /\ rt.vec = rt.table

C4_RoundTripAlways == RtReadDone => RtRoundTrips

\* C4, amended: the round trip holds when arguments.cache_thresholds is set
C4_RoundTripWhenCaching ==
    (RtReadDone /\ arguments.cache_thresholds) => RtRoundTrips

C4_Witness ==
    /\ rt.stage = "returned" /\ arguments.cache_thresholds
    /\ Len(rt.table) = 2 /\ rt.table[1] # rt.table[2]
    /\ rt.vec = rt.table

\* C9: two argument tuples get the same file name exactly when they agree on
\* pattern_size, window_size, shape, p_max and fpr
KeyTuple(a) == <<a.pattern_size, a.window_size, a.shape, a.p_max, a.fpr>>

C9_FilenameInjective ==
    keys.stage = "named" =>
        ((keys.first = keys.second) <=> (KeyTuple(arguments) = KeyTuple(keys.other)))

\* the largest k in 0..n with P(n,k) >= p_max; 0 when no k >= 1 has it
LargestSignificant(a, n) ==
    LET significant == {k \in 1..n : ProbabilityGE(a, n, k)}
    IN  IF significant = {} THEN 0
        ELSE CHOOSE k \in significant : \A j \in significant : j <= k

\* C11: for a configuration the spec accepts, the entry stored for minimizer
\* count n is the largest k in 0..n whose probability is at least p_max
C11_EntryIsLargestSignificant ==
    \A p \in Procs :
        (AcceptedConfiguration(arguments) /\ Builds(p)) =>
            \A i \in 1..Len(correction[p]) :
                correction[p][i] =
                    LargestSignificant(arguments, Minimal(arguments) + i - 1)

\* C12: parse_chopper_config throws validation_error exactly when the config
\* is unavailable and required; when it is unavailable and not required, the
\* options given on the command line keep their values
CpFinished == cp.stage \in {"returned", "validation_error"}

C12_MissingConfigIgnored ==
    CpFinished =>
        /\ (cp.stage = "validation_error") <=> (~cp.config_available /\ ConfigRequired(cp))
        /\ (cp.stage = "returned" /\ ~cp.config_available) =>
               /\ cp.is_option_set.kmer => cp.arguments.kmer_size = cp.given.kmer_size
               /\ cp.arguments.hash = cp.given.hash
               /\ cp.arguments.fpr = cp.given.fpr

=============================================================================
